---- MODULE Spec2Model ----
(***************************************************************************)
(* Model of quiz-from-user-text.py: the extractor adapter                  *)
(* (clean_and_parse_questions), the template merge                         *)
(* (build_questions_from_mc, create_h5p_from_template) and the button      *)
(* handler that runs them in sequence.                                     *)
(*                                                                         *)
(* Python objects live in a heap: a dict or a list is a cell reached by    *)
(* reference, a str / bool / int is an immutable value stored inline.      *)
(* A JSON document (an archive payload) is a heap of its own whose root is *)
(* cell 1 and whose cells are numbered in preorder; json.loads relocates   *)
(* it into the program heap, json.dumps walks the program heap from the    *)
(* root and writes the preorder form again.                                *)
(***************************************************************************)
EXTENDS Integers, Sequences, FiniteSets, TLC

\* ------------------------------------------------------------------ bounds
MaxRecords == 3
MaxAnswers == 5
MaxEntries == 3

\* ------------------------------------------------------------------ values
\* Every value has the same three fields, so any two values compare.
Str(s) == [t |-> "str", s |-> s, a |-> 0]
Bool(b) == [t |-> "bool", s |-> IF b THEN "true" ELSE "false", a |-> 0]
Ref(addr) == [t |-> "ref", s |-> "", a |-> addr]
\* str(uuid.uuid4()): the n-th token drawn from the generator.
UuidStr(n) == [t |-> "uuid", s |-> "", a |-> n]
\* f"Vraag {i}": the text "Vraag " followed by the decimal digits of i.
VraagLabel(i) == [t |-> "str", s |-> "Vraag ", a |-> i]

\* A dict keeps its keys in insertion order, as Python's dict does.
DictCell(keys, vals) == [t |-> "dict", keys |-> keys, vals |-> vals]
ListCell(vals) == [t |-> "list", keys |-> <<>>, vals |-> vals]

KeyPos(cell, k) ==
  IF \E i \in 1..Len(cell.keys) : cell.keys[i] = k
  THEN CHOOSE i \in 1..Len(cell.keys) : cell.keys[i] = k
  ELSE 0

\* k in d
HasKey(h, addr, k) == KeyPos(h[addr], k) # 0
\* d[k], for a key that is there
GetKey(h, addr, k) == h[addr].vals[KeyPos(h[addr], k)]
\* d[k] = v
SetKey(h, addr, k, v) ==
  LET p == KeyPos(h[addr], k) IN
  IF p # 0
  THEN [h EXCEPT ![addr].vals[p] = v]
  ELSE [h EXCEPT ![addr].keys = Append(@, k), ![addr].vals = Append(@, v)]
\* l.append(v)
ListAppend(h, addr, v) == [h EXCEPT ![addr].vals = Append(@, v)]
\* a new object: its address is Len(h) + 1
Alloc(h, cell) == Append(h, cell)

\* The function f on 1..n as the tuple <<f[1], ..., f[n]>>.
Tuple(f) == <<>> \o f

\* e, evaluated once and handed to F.
Let(e, F(_)) == CHOOSE r \in { F(v) : v \in {e} } : TRUE

RECURSIVE Flatten(_, _)
Flatten(seqs, i) == IF i > Len(seqs) THEN <<>> ELSE seqs[i] \o Flatten(seqs, i + 1)

\* The addresses of the tree below `r` (r first, then each child's tree in turn).
RECURSIVE Preorder(_, _)
Preorder(h, r) ==
  LET kids == SelectSeq(h[r].vals, LAMBDA v : v.t = "ref")
  IN <<r>> \o Flatten([i \in 1..Len(kids) |-> Preorder(h, kids[i].a)], 1)

\* The addresses reachable from `r` (r included).
Reach(h, r) == Let(Preorder(h, r), LAMBDA order : { order[i] : i \in 1..Len(order) })

PosOf(order, addr) == CHOOSE i \in 1..Len(order) : order[i] = addr

\* A cell of a tree listed in `order`, its references renumbered for a copy
\* that starts at address base + 1.
Relocated(cell, order, base) ==
  [cell EXCEPT !.vals = Tuple([j \in 1..Len(cell.vals) |->
                                 IF cell.vals[j].t = "ref"
                                 THEN Ref(base + PosOf(order, cell.vals[j].a))
                                 ELSE cell.vals[j]])]

\* The tree below `r` in `src`, copied cell by cell to the end of `dst`; the
\* copy of `r` itself is cell Len(dst) + 1 and its children follow in preorder.
CopyInto(src, r, dst) ==
  Let(Preorder(src, r),
      LAMBDA order :
        dst \o Tuple([i \in 1..Len(order) |-> Relocated(src[order[i]], order, Len(dst))]))

\* copy.copy(x): a new top-level cell whose values (references included) are shared.
shallow_copy(h, r) == [heap |-> Append(h, h[r]), root |-> Len(h) + 1]

\* copy.deepcopy(x), for the trees json.loads builds (no cell is shared).
deepcopy(h, r) == [heap |-> CopyInto(h, r, h), root |-> Len(h) + 1]

\* json.dumps(obj, ensure_ascii=False, indent=2): the document below `root`.
json_dumps(h, root) == CopyInto(h, root, <<>>)

\* json.loads(text) of a well-formed document: its cells, appended to the heap.
json_loads(h, doc) == [heap |-> CopyInto(doc, 1, h), root |-> Len(h) + 1]

\* ------------------------------------------------------------------ inputs
\* A document under construction: an item is an inline value or a sub-document.
Prim(v) == [v |-> v, f |-> <<>>]
Sub(doc) == [v |-> Ref(0), f |-> doc]

\* The root cell followed by the items' documents, each renumbered to its place.
RECURSIVE Offsets(_, _, _)
Offsets(items, i, at) ==
  IF i > Len(items) THEN <<>>
  ELSE <<at>> \o Offsets(items, i + 1, at + Len(items[i].f))
Assemble(root, items) ==
  Let(Offsets(items, 1, 1),
      LAMBDA off :
        <<[root EXCEPT !.vals = Tuple([i \in 1..Len(items) |->
                                         IF items[i].v.t = "ref" THEN Ref(off[i] + 1)
                                         ELSE items[i].v])]>>
        \o Flatten([i \in 1..Len(items) |->
                      [c \in 1..Len(items[i].f) |->
                         [items[i].f[c] EXCEPT !.vals =
                            Tuple([j \in 1..Len(@) |-> IF @[j].t = "ref" THEN Ref(@[j].a + off[i])
                                                       ELSE @[j]])]]], 1))

MkDict(keys, items) == Assemble(DictCell(keys, <<>>), items)
MkList(items) == Assemble(ListCell(<<>>), items)

\* A template's answer entry: text, correct, and the template-defined rest.
TemplateAnswer(text, correct, tip) ==
  MkDict(<<"text", "correct", "tipsAndFeedback">>,
         <<Prim(Str(text)), Prim(Bool(correct)),
           Sub(MkDict(<<"tip", "chosenFeedback">>, <<Prim(Str(tip)), Prim(Str("fb"))>>))>>)

\* A template's question entry (an H5P.MultiChoice instance).
TemplateQuestion(n, retry) ==
  MkDict(<<"params", "library", "metadata", "subContentId">>,
         <<Sub(MkDict(<<"question", "answers", "behaviour">>,
                      <<Prim(Str("template question")),
                        Sub(MkList(<<Sub(TemplateAnswer("first", TRUE, "tip one")),
                                     Sub(TemplateAnswer("second", FALSE, "tip two"))>>)),
                        Sub(MkDict(<<"enableRetry">>, <<Prim(Bool(retry))>>))>>)),
           Prim(Str("H5P.MultiChoice 1.16")),
           Sub(MkDict(<<"title", "extraTitle", "license">>,
                      <<Prim(Str("old title")), Prim(Str("old extra")), Prim(Str("U"))>>)),
           Prim(UuidStr(0 - n))>>)

\* content/content.json with `n` questions; without the field when n < 0.
TemplateDoc(n) ==
  IF n < 0
  THEN MkDict(<<"progressType", "endGame">>,
              <<Prim(Str("dots")),
                Sub(MkDict(<<"showResultPage">>, <<Prim(Bool(TRUE))>>))>>)
  ELSE MkDict(<<"progressType", "questions", "endGame">>,
              <<Prim(Str("dots")),
                Sub(MkList(Tuple([j \in 1..n |-> Sub(TemplateQuestion(j, j = 1))]))),
                Sub(MkDict(<<"showResultPage">>, <<Prim(Bool(TRUE))>>))>>)

\* An entry's payload: a JSON document, or bytes that are not JSON.
JsonPayload(doc) == [kind |-> "json", cells |-> doc, b |-> 0]
BinPayload(n) == [kind |-> "bin", cells |-> <<>>, b |-> n]

ContentName == "content/content.json"
EntryNames == {ContentName, "h5p.json", "image.png"}

\* The content descriptions a template is tried with: unparseable bytes, no
\* `questions` field, an empty `questions`, one question, two questions.
ContentPayloads ==
  {BinPayload(99)} \cup {JsonPayload(TemplateDoc(n)) : n \in {0 - 1, 0, 1, 2}}

\* An archive entry; `ok` is false for an entry whose stored CRC does not match.
Entry(name, payload, ok) == [name |-> name, payload |-> payload, ok |-> ok]

\* Archives with the usual layout, one per content description, and one with
\* no content description at all.
UsualArchives ==
  { <<Entry("h5p.json", BinPayload(1), TRUE), Entry(ContentName, p, TRUE),
      Entry("image.png", BinPayload(3), TRUE)>> : p \in ContentPayloads }
  \cup { <<Entry("h5p.json", BinPayload(1), TRUE), Entry("image.png", BinPayload(3), TRUE)>> }

\* Every layout of up to MaxEntries entries (names may repeat, as a zip allows),
\* entry i carrying payload i, at most one entry corrupt.
LayoutArchives ==
  UNION { { Tuple([i \in 1..n |->
                     Entry(names[i],
                           IF names[i] = ContentName THEN JsonPayload(TemplateDoc(1))
                           ELSE BinPayload(i),
                           i # bad)]) : names \in [1..n -> EntryNames], bad \in 0..n }
          : n \in 0..MaxEntries }

\* One element of mc_questions. A JSON object has dict = TRUE and each of its
\* fields present (a one-element sequence) or absent (the empty sequence).
Letters == <<"A", "B", "C", "D", "E", "F", "G", "H">>
QuestionTexts == <<"Q one", "Q two", "Q three", "Q four">>
AnswerTexts(k) == SubSeq(Letters, 1, k)
Item(question, answers, ci) ==
  [dict |-> TRUE, question |-> question, answers |-> answers, correct_index |-> ci]
NonDictItem == [dict |-> FALSE, question |-> <<>>, answers |-> <<>>, correct_index |-> <<>>]

\* The records the service is asked for, with any number of answers and a
\* correct_index that is absent, in range, one past the end, or -1.
WellFormedShapes ==
  UNION { { Item(<<"?">>, <<AnswerTexts(k)>>, ci) : ci \in {<<>>} \cup { <<c>> : c \in 0..k } }
          : k \in 0..MaxAnswers }
  \cup { Item(<<"?">>, <<AnswerTexts(2)>>, <<0 - 1>>) }

\* Records that break the shape: no `question`, no `answers`.
MalformedShapes ==
  { Item(<<>>, <<AnswerTexts(1)>>, <<0>>), Item(<<"?">>, <<>>, <<0>>) }

\* The record at position i asks question text i.
WithText(q, i) == IF q.question = <<>> THEN q ELSE [q EXCEPT !.question = <<QuestionTexts[i]>>]

IsWellFormed(q) == q.dict /\ q.question # <<>> /\ q.answers # <<>>

\* mc_questions: a list of items, or a value of another JSON type.
ListValue(recs) == [kind |-> "list", recs |-> recs]
StrValue(n) == [kind |-> "str", recs |-> Tuple([j \in 1..n |-> NonDictItem])]
NullValue == [kind |-> "null", recs |-> <<>>]

\* Records that differ in what the code looks at: no answers, two answers and
\* no correct_index, three answers, the most answers, no `question`, no `answers`.
CoreShapes ==
  { Item(<<"?">>, <<AnswerTexts(0)>>, <<0>>),
    Item(<<"?">>, <<AnswerTexts(2)>>, <<>>),
    Item(<<"?">>, <<AnswerTexts(3)>>, <<2>>),
    Item(<<"?">>, <<AnswerTexts(MaxAnswers)>>, <<1>>) } \cup MalformedShapes

\* Every list of up to MaxRecords records of the given shapes.
RecordLists(shapes) ==
  UNION { { ListValue(Tuple([i \in 1..m |-> WithText(f[i], i)])) : f \in [1..m -> shapes] }
          : m \in 0..MaxRecords }

\* The lists the merge is tried with: every list of core records, and every
\* record shape on its own.
AllLists ==
  RecordLists(CoreShapes)
  \cup { ListValue(<<WithText(q, 1)>>) : q \in WellFormedShapes \cup MalformedShapes }

\* --------------------------------------------------- build_questions_from_mc
\* What a function hands back: the exception it raised ("" when it returned),
\* the heap, the address of its result and the number of uuids drawn so far.
Raised(exc, h, uc) == [exc |-> exc, heap |-> h, root |-> 0, uuids |-> uc]
Returned(h, root, uc) == [exc |-> "", heap |-> h, root |-> root, uuids |-> uc]

\* q.get("correct_index", 0); the first form is the default of the preview
\* (line 294) used in its place, the second is line 101.
CorrectIdxOrNone(q) == IF q.correct_index = <<>> THEN 0 - 1 ELSE q.correct_index[1]
CorrectIdxOr0(q) == IF q.correct_index = <<>> THEN 0 ELSE q.correct_index[1]

\* bool(idx == correct_idx), idx counting from 0 (enumerate without start);
\* the first form counts from 1 instead.
AnswerCorrectOffByOne(idx, correct_idx) == Bool(idx + 1 = correct_idx)
AnswerCorrect(idx, correct_idx) == Bool(idx = correct_idx)

\* enumerate(mc_questions, start=1) and f"Vraag {i}"; the first form is
\* enumerate without start=1.
QuestionTitleFromZero(i) == VraagLabel(i - 1)
QuestionTitle(i) == VraagLabel(i)

\* str(uuid.uuid4()) with `uc` tokens drawn before: a token no earlier call
\* returned. The first form is one token drawn outside the loop.
SameSubContentId(uc) == UuidStr(1)
NewSubContentId(uc) == UuidStr(uc + 1)

\* Lines 103-106 for the answer at 0-based position idx: a copy of the
\* skeleton's first answer entry, patched and appended to `answers`.
AnswerEntry(h, text, idx, correct_idx, first_answer, answers) ==
  Let(deepcopy(h, first_answer),
      LAMBDA c :
        ListAppend(SetKey(SetKey(c.heap, c.root, "text", Str(text)),
                          c.root, "correct", AnswerCorrect(idx, correct_idx)),
                   answers, Ref(c.root)))

\* The inner loop (lines 102-106) from answer `j` (1-based) on; `answers` is the
\* address of the list being filled.
RECURSIVE BuildAnswers(_, _, _, _, _, _, _)
BuildAnswers(h, texts, j, correct_idx, base_params, answers, uc) ==
  IF j > Len(texts) THEN Returned(h, answers, uc)
  ELSE IF ~HasKey(h, base_params, "answers") THEN Raised("KeyError", h, uc)
  ELSE IF Len(h[GetKey(h, base_params, "answers").a].vals) = 0 THEN Raised("IndexError", h, uc)
  ELSE Let(AnswerEntry(h, texts[j], j - 1, correct_idx,
                       h[GetKey(h, base_params, "answers").a].vals[1].a, answers),
           LAMBDA h1 : BuildAnswers(h1, texts, j + 1, correct_idx, base_params, answers, uc))

\* Lines 107-114: the answers, the titles and the identifier are set and the
\* question is appended to new_questions.
FinishQuestion(h, q_obj, answers, i, new_questions, uc) ==
  IF ~HasKey(h, q_obj, "metadata") THEN Raised("KeyError", h, uc)
  ELSE Returned(
         ListAppend(
           SetKey(SetKey(SetKey(SetKey(h, GetKey(h, q_obj, "params").a, "answers", Ref(answers)),
                                GetKey(h, q_obj, "metadata").a, "title", QuestionTitle(i)),
                         GetKey(h, q_obj, "metadata").a, "extraTitle", QuestionTitle(i)),
                  q_obj, "subContentId", NewSubContentId(uc)),
           new_questions, Ref(q_obj)),
         new_questions, uc + 1)

\* Lines 94-114 on the copy q_obj of the skeleton, for record `q` at position i.
PatchQuestion(h, q_obj, q, i, base_params, new_questions, uc) ==
  IF ~HasKey(h, q_obj, "params") THEN Raised("KeyError", h, uc)
  ELSE IF ~q.dict THEN Raised("TypeError", h, uc)
  ELSE IF q.question = <<>> THEN Raised("KeyError", h, uc)
  ELSE IF q.answers = <<>>
       THEN Raised("KeyError", SetKey(h, GetKey(h, q_obj, "params").a, "question",
                                      Str(q.question[1])), uc)
  ELSE Let(Alloc(SetKey(h, GetKey(h, q_obj, "params").a, "question", Str(q.question[1])),
                 ListCell(<<>>)),
           LAMBDA h1 :
             Let(BuildAnswers(h1, q.answers[1], 1, CorrectIdxOr0(q), base_params, Len(h1), uc),
                 LAMBDA r : IF r.exc # "" THEN r
                            ELSE FinishQuestion(r.heap, q_obj, Len(h1), i, new_questions, uc)))

\* One pass of the outer loop (lines 93-114) for record `q` at 1-based position i.
BuildQuestion(h, q, i, base_q, base_params, new_questions, uc) ==
  Let(deepcopy(h, base_q),
      LAMBDA c : PatchQuestion(c.heap, c.root, q, i, base_params, new_questions, uc))

RECURSIVE BuildLoop(_, _, _, _, _, _, _)
BuildLoop(h, recs, i, base_q, base_params, new_questions, uc) ==
  IF i > Len(recs) THEN Returned(h, new_questions, uc)
  ELSE Let(BuildQuestion(h, recs[i], i, base_q, base_params, new_questions, uc),
           LAMBDA r : IF r.exc # "" THEN r
                      ELSE BuildLoop(r.heap, recs, i + 1, base_q, base_params, new_questions,
                                     r.uuids))

\* base_q = template_content["questions"][0] (line 88): root is the skeleton.
Skeleton(h, template_content, uc) ==
  IF ~HasKey(h, template_content, "questions") THEN Raised("KeyError", h, uc)
  ELSE IF Len(h[GetKey(h, template_content, "questions").a].vals) = 0
       THEN Raised("IndexError", h, uc)
       ELSE Returned(h, h[GetKey(h, template_content, "questions").a].vals[1].a, uc)

\* Lines 88-89 run before the loop of line 92, whatever mc_questions holds;
\* the first form is the lookup moved into the loop body.
SkeletonFetchedInLoop(mc_questions) == Len(mc_questions.recs) > 0
SkeletonFetchedFirst(mc_questions) == TRUE

\* build_questions_from_mc(mc_questions, template_content): root is new_questions
\* and base_q the skeleton. Iterating None raises TypeError; iterating a str
\* yields its characters.
build_questions_from_mc(h, mc_questions, template_content, uc) ==
  Let(IF SkeletonFetchedFirst(mc_questions) THEN Skeleton(h, template_content, uc)
      ELSE Returned(h, 0, uc),
      LAMBDA s :
        IF s.exc # "" THEN s
        ELSE IF s.root # 0 /\ ~HasKey(h, s.root, "params") THEN Raised("KeyError", h, uc)
        ELSE IF mc_questions.kind = "null" THEN Raised("TypeError", h, uc)
        ELSE BuildLoop(Alloc(h, ListCell(<<>>)), mc_questions.recs, 1, s.root,
                       IF s.root = 0 THEN 0 ELSE GetKey(h, s.root, "params").a,
                       Len(h) + 1, uc))

\* ------------------------------------------------- create_h5p_from_template
\* A file that ZipFile can open (zip) or cannot.
ZipFileOf(entries) == [zip |-> TRUE, entries |-> entries]
NotAZip == [zip |-> FALSE, entries |-> <<>>]

\* ZipFile.NameToInfo: the last entry stored under `name` (0: none).
NameToInfo(entries, name) ==
  IF \E i \in 1..Len(entries) : entries[i].name = name
  THEN CHOOSE i \in 1..Len(entries) :
         entries[i].name = name /\ \A j \in i + 1..Len(entries) : entries[j].name # name
  ELSE 0

\* zin.read(name): the payload, or the exception raised.
ZipRead(entries, name) ==
  LET i == NameToInfo(entries, name) IN
  IF i = 0 THEN [exc |-> "KeyError", payload |-> BinPayload(0)]
  ELSE IF ~entries[i].ok THEN [exc |-> "BadZipFile", payload |-> BinPayload(0)]
  ELSE [exc |-> "", payload |-> entries[i].payload]

\* The file at output_h5p_path: the entries written so far, and whether the
\* loop of line 145 wrote them all.
OutFile(entries, complete) == [entries |-> entries, complete |-> complete]

\* Lines 145-149 from entry i on. An exception leaves the with block of line
\* 144, whose exit closes zout over the entries written so far.
RECURSIVE CopyEntries(_, _, _, _)
CopyEntries(entries, i, new_content_bytes, written) ==
  IF i > Len(entries) THEN [exc |-> "", out |-> OutFile(written, TRUE)]
  ELSE LET r == ZipRead(entries, entries[i].name) IN
       IF r.exc # "" THEN [exc |-> r.exc, out |-> OutFile(written, FALSE)]
       ELSE CopyEntries(entries, i + 1, new_content_bytes,
                        Append(written,
                               Entry(entries[i].name,
                                     IF entries[i].name = ContentName
                                     THEN new_content_bytes ELSE r.payload,
                                     TRUE)))

\* What create_h5p_from_template leaves: exc, the heap, the uuids drawn, the
\* file at the output path (a sequence of at most one file), and the addresses
\* of content_json, of the skeleton and of the new questions list.
Outcome(exc, h, uc, out, content_json, base_q, new_questions) ==
  [exc |-> exc, heap |-> h, uuids |-> uc, out |-> out,
   content_json |-> content_json, base_q |-> base_q, new_questions |-> new_questions]

\* Lines 139-149: the document is serialized and the output archive written.
WriteOutput(h, content_json, zin, base_q, new_questions, uc) ==
  Let(JsonPayload(json_dumps(h, content_json)),
      LAMBDA new_content_bytes :
        Let(CopyEntries(zin, 1, new_content_bytes, <<>>),
            LAMBDA copied : Outcome(copied.exc, h, uc, <<copied.out>>, content_json, base_q,
                                    new_questions)))

\* Lines 135-149, with content_json loaded at the address of that name.
MergeLoaded(h, content_json, zin, out_before, mc_questions, uc) ==
  Let(build_questions_from_mc(h, mc_questions, content_json, uc),
      LAMBDA built :
        IF built.exc # ""
        THEN Outcome(built.exc, built.heap, built.uuids, out_before, content_json,
                     Skeleton(h, content_json, uc).root, 0)
        ELSE WriteOutput(SetKey(built.heap, content_json, "questions", Ref(built.root)),
                         content_json, zin, Skeleton(h, content_json, uc).root,
                         built.root, built.uuids))

create_h5p_from_template(h, template, out_before, mc_questions, uc) ==
  IF template = <<>> THEN Outcome("FileNotFoundError", h, uc, out_before, 0, 0, 0)
  ELSE IF ~template[1].zip THEN Outcome("BadZipFile", h, uc, out_before, 0, 0, 0)
  ELSE Let(ZipRead(template[1].entries, ContentName),
           LAMBDA raw :
             IF raw.exc # "" THEN Outcome(raw.exc, h, uc, out_before, 0, 0, 0)
             ELSE IF raw.payload.kind # "json"
                  THEN Outcome("JSONDecodeError", h, uc, out_before, 0, 0, 0)
             ELSE Let(json_loads(h, raw.payload.cells),
                      LAMBDA loaded :
                        MergeLoaded(loaded.heap, loaded.root, template[1].entries,
                                    out_before, mc_questions, uc)))

\* ------------------------------------------------- clean_and_parse_questions
\* The service's reply: text that json.loads rejects, or a JSON object with or
\* without a `questions` field (response_format json_object).
InvalidReply == [valid |-> FALSE, has |-> FALSE, questions |-> NullValue]
ObjectWithout == [valid |-> TRUE, has |-> FALSE, questions |-> NullValue]
ObjectWith(v) == [valid |-> TRUE, has |-> TRUE, questions |-> v]

\* data.get("questions", []); the first form is data["questions"].
QuestionsOrRaise(data) ==
  IF data.has THEN [exc |-> "", value |-> data.questions]
  ELSE [exc |-> "KeyError", value |-> NullValue]
QuestionsOrEmpty(data) ==
  [exc |-> "", value |-> IF data.has THEN data.questions ELSE ListValue(<<>>)]

\* Lines 72-78, given the reply the service sent.
clean_and_parse_questions(reply) ==
  IF ~reply.valid THEN [exc |-> "RuntimeError", value |-> NullValue]
  ELSE QuestionsOrEmpty(reply)

\* `not mc_questions`: None, an empty list and an empty str are falsy.
Falsy(v) == v.kind = "null" \/ Len(v.recs) = 0

\* ------------------------------------------------------------ preview loop
\* q.get("correct_index", -1)
CorrectIdxOrMinus1(q) == IF q.correct_index = <<>> THEN 0 - 1 ELSE q.correct_index[1]

\* Lines 291-301: per question, whether st.warning was shown.
PreviewRaises(v) ==
  v.kind = "null" \/ \E i \in 1..Len(v.recs) : ~IsWellFormed(v.recs[i])
PreviewWarnings(v) == Tuple([i \in 1..Len(v.recs) |-> CorrectIdxOrMinus1(v.recs[i]) = 0 - 1])

\* ------------------------------------------------------------------- state
VARIABLES
  pc,                \* where the run is
  api_key,           \* the key from st.secrets or the text input
  raw_questions_text,\* the pasted text
  reply,             \* what the service answers for this text
  uploaded_template, \* the uploaded file, if any
  default_template,  \* quiz-template.h5p in the working directory, if any
  template_file,     \* the file at template_path
  mc_questions,      \* the records handed to the merge
  heap,              \* the Python objects
  uuids,             \* uuid4 tokens drawn so far
  tmpdir,            \* whether the temporary directory exists
  output_file,       \* the file at output_path, if any
  locals,            \* content_json, base_q and new_questions of the last merge
  exc,               \* the exception that ended the run ("" for none)
  warnings,          \* the preview's st.warning per question
  download           \* the bytes handed to st.download_button, if any

vars == <<pc, api_key, raw_questions_text, reply, uploaded_template, default_template,
          template_file, mc_questions, heap, uuids, tmpdir, output_file, locals, exc,
          warnings, download>>

inputs == <<api_key, raw_questions_text, reply, uploaded_template, default_template>>

NoLocals == [content_json |-> 0, base_q |-> 0, new_questions |-> 0]

UsualFiles == { ZipFileOf(a) : a \in UsualArchives } \cup {NotAZip}
GoodFile ==
  ZipFileOf(<<Entry("h5p.json", BinPayload(1), TRUE),
              Entry(ContentName, JsonPayload(TemplateDoc(2)), TRUE),
              Entry("image.png", BinPayload(3), TRUE)>>)

Replies ==
  {InvalidReply, ObjectWithout, ObjectWith(NullValue), ObjectWith(StrValue(2))}
  \cup { ObjectWith(v) : v \in AllLists }

\* The page as the button is about to be pressed.
Init ==
  /\ pc = "idle"
  /\ api_key \in {"", "sk-key"}
  /\ raw_questions_text \in {"", "  ", "1. Wat is ...?"}
  /\ IF api_key = "" \/ raw_questions_text # "1. Wat is ...?"
     THEN /\ reply = InvalidReply
          /\ uploaded_template = <<>>
          /\ default_template = <<>>
     ELSE /\ reply \in Replies
          /\ \/ uploaded_template \in { <<f>> : f \in UsualFiles } /\ default_template = <<>>
             \/ uploaded_template = <<>> /\ default_template \in {<<>>, <<GoodFile>>}
  /\ template_file = <<>>
  /\ mc_questions = NullValue
  /\ heap = <<>>
  /\ uuids = 0
  /\ tmpdir = FALSE
  /\ output_file = <<>>
  /\ locals = NoLocals
  /\ exc = ""
  /\ warnings = <<>>
  /\ download = <<>>

\* The file at template_path once the temporary directory is gone: an upload
\* was written into it (line 271), quiz-template.h5p was not.
TemplateAfterCleanup == IF uploaded_template # <<>> THEN <<>> ELSE template_file

\* An exception inside the try of line 237: the with block of line 240 removes
\* the temporary directory and all in it, then line 313 reports the exception.
Caught(e) ==
  /\ pc' = "caught"
  /\ exc' = e
  /\ tmpdir' = FALSE
  /\ output_file' = <<>>
  /\ template_file' = TemplateAfterCleanup

\* Lines 231-240: the button is pressed.
Click ==
  /\ pc = "idle"
  /\ IF api_key = "" \/ raw_questions_text \in {"", "  "}
     THEN pc' = "error" /\ tmpdir' = tmpdir
     ELSE pc' = "extract" /\ tmpdir' = TRUE
  /\ UNCHANGED <<inputs, template_file, mc_questions, heap, uuids, output_file, locals,
                 exc, warnings, download>>

\* Lines 247-251: the call of clean_and_parse_questions; the request itself
\* may fail (network, auth, quota).
Extract ==
  /\ pc = "extract"
  /\ \E service_ok \in BOOLEAN, r \in {clean_and_parse_questions(reply)} :
       IF ~service_ok THEN Caught("APIError") /\ mc_questions' = mc_questions
       ELSE IF r.exc # "" THEN Caught(r.exc) /\ mc_questions' = mc_questions
       ELSE /\ pc' = "check"
            /\ mc_questions' = r.value
            /\ UNCHANGED <<exc, tmpdir, output_file, template_file>>
  /\ UNCHANGED <<inputs, heap, uuids, locals, warnings, download>>

\* Lines 253-264: for a falsy mc_questions st.stop() ends the run, and the
\* with block of line 240 still removes the temporary directory.
CheckQuestions ==
  /\ pc = "check"
  /\ IF Falsy(mc_questions)
     THEN /\ pc' = "stopped"
          /\ tmpdir' = FALSE
          /\ UNCHANGED <<exc, output_file, template_file>>
     ELSE /\ pc' = "template"
          /\ UNCHANGED <<exc, tmpdir, output_file, template_file>>
  /\ UNCHANGED <<inputs, mc_questions, heap, uuids, locals, warnings, download>>

\* Lines 270-282: the template is the upload, written into the temporary
\* directory, or quiz-template.h5p; the output name takes a uuid.
ResolveTemplate ==
  /\ pc = "template"
  /\ IF uploaded_template # <<>>
     THEN /\ template_file' = uploaded_template
          /\ pc' = "merge"
          /\ uuids' = uuids + 1
          /\ UNCHANGED <<exc, tmpdir, output_file>>
     ELSE IF default_template = <<>>
          THEN Caught("FileNotFoundError") /\ uuids' = uuids
          ELSE /\ template_file' = default_template
               /\ pc' = "merge"
               /\ uuids' = uuids + 1
               /\ UNCHANGED <<exc, tmpdir, output_file>>
  /\ UNCHANGED <<inputs, mc_questions, heap, locals, warnings, download>>

\* Line 284: create_h5p_from_template(template_path, output_path, mc_questions).
Merge ==
  /\ pc = "merge"
  /\ \E r \in {create_h5p_from_template(heap, template_file, output_file, mc_questions, uuids)} :
        /\ heap' = r.heap
        /\ uuids' = r.uuids
        /\ locals' = [content_json |-> r.content_json, base_q |-> r.base_q,
                      new_questions |-> r.new_questions]
        /\ IF r.exc # "" THEN Caught(r.exc)
           ELSE /\ pc' = "preview"
                /\ output_file' = r.out
                /\ UNCHANGED <<exc, tmpdir, template_file>>
  /\ UNCHANGED <<inputs, mc_questions, warnings, download>>

\* Lines 290-301: the questions are listed, with a warning where
\* correct_index is -1 or missing.
Preview ==
  /\ pc = "preview"
  /\ IF PreviewRaises(mc_questions)
     THEN Caught("KeyError") /\ warnings' = warnings
     ELSE /\ pc' = "download"
          /\ warnings' = PreviewWarnings(mc_questions)
          /\ UNCHANGED <<exc, tmpdir, output_file, template_file>>
  /\ UNCHANGED <<inputs, mc_questions, heap, uuids, locals, download>>

\* Lines 305-311: the output is read and offered; leaving the with block of
\* line 240 removes the temporary directory.
Download ==
  /\ pc = "download"
  /\ IF output_file = <<>>
     THEN Caught("FileNotFoundError") /\ download' = download
     ELSE /\ pc' = "done"
          /\ download' = output_file
          /\ tmpdir' = FALSE
          /\ output_file' = <<>>
          /\ template_file' = TemplateAfterCleanup
          /\ exc' = exc
  /\ UNCHANGED <<inputs, mc_questions, heap, uuids, locals, warnings>>

Next == Click \/ Extract \/ CheckQuestions \/ ResolveTemplate \/ Merge \/ Preview \/ Download

Spec == Init /\ [][Next]_vars

\* ------------------------------------------------- the merge called directly
DirectLists == AllLists \cup {NullValue, StrValue(2)}
FewLists ==
  { ListValue(<<>>),
    ListValue(<<Item(<<"Q one">>, <<AnswerTexts(4)>>, <<2>>)>>),
    ListValue(<<Item(<<"Q one">>, <<AnswerTexts(3)>>, <<>>)>>) }

\* create_h5p_from_template about to be called on a template file, a list of
\* records and an output path that names no file yet.
InitMerge ==
  /\ pc = "call"
  /\ api_key = ""
  /\ raw_questions_text = ""
  /\ reply = InvalidReply
  /\ uploaded_template = <<>>
  /\ default_template = <<>>
  /\ \/ template_file \in { <<f>> : f \in UsualFiles } /\ mc_questions \in DirectLists
     \/ template_file \in { <<ZipFileOf(a)>> : a \in LayoutArchives } /\ mc_questions \in FewLists
  /\ heap = <<>>
  /\ uuids = 0
  /\ tmpdir = TRUE
  /\ output_file = <<>>
  /\ locals = NoLocals
  /\ exc = ""
  /\ warnings = <<>>
  /\ download = <<>>

\* The call: it returns or raises, and nothing cleans up after it.
Call ==
  /\ pc = "call"
  /\ \E r \in {create_h5p_from_template(heap, template_file, output_file, mc_questions, uuids)} :
        /\ heap' = r.heap
        /\ uuids' = r.uuids
        /\ locals' = [content_json |-> r.content_json, base_q |-> r.base_q,
                      new_questions |-> r.new_questions]
        /\ output_file' = r.out
        /\ exc' = r.exc
        /\ pc' = IF r.exc = "" THEN "returned" ELSE "raised"
  /\ UNCHANGED <<inputs, template_file, mc_questions, tmpdir, warnings, download>>

NextMerge == Call

SpecMerge == InitMerge /\ [][NextMerge]_vars

\* ------------------------------------------------------------- properties
\* The content description a reader finds in an archive.
ContentOf(entries) == ZipRead(entries, ContentName).payload.cells

\* The `questions` of a content description: a sequence of references.
QuestionsOf(doc) == doc[GetKey(doc, 1, "questions").a].vals

\* A field's value with, for an object or a list, everything below it.
Tree(doc, v) ==
  [v |-> IF v.t = "ref" THEN Ref(0) ELSE v,
   cells |-> IF v.t = "ref" THEN json_dumps(doc, v.a) ELSE <<>>]

\* The cell at `a2` of d2 agrees with the cell at `a1` of d1 on every key not in `except`.
SameExcept(d1, a1, d2, a2, except) ==
  /\ d1[a1].t = d2[a2].t
  /\ {d1[a1].keys[i] : i \in 1..Len(d1[a1].keys)} \ except
       = {d2[a2].keys[i] : i \in 1..Len(d2[a2].keys)} \ except
  /\ \A i \in 1..Len(d1[a1].keys) :
       d1[a1].keys[i] \notin except =>
         Tree(d1, d1[a1].vals[i]) = Tree(d2, GetKey(d2, a2, d1[a1].keys[i]))

\* A template the merge can use: a readable archive whose content description
\* has at least one question.
UsableTemplate(file) ==
  /\ file # <<>>
  /\ file[1].zip
  /\ \A i \in 1..Len(file[1].entries) : file[1].entries[i].ok
  /\ NameToInfo(file[1].entries, ContentName) # 0
  /\ ZipRead(file[1].entries, ContentName).payload.kind = "json"
  /\ HasKey(ContentOf(file[1].entries), 1, "questions")
  /\ Len(QuestionsOf(ContentOf(file[1].entries))) >= 1

\* A list of question records, each with its question text and its answers.
RecordList(v) == v.kind = "list" /\ \A i \in 1..Len(v.recs) : IsWellFormed(v.recs[i])

\* The answer entries of question `qref` of a content description.
AnswersOf(doc, qref) == doc[GetKey(doc, GetKey(doc, qref.a, "params").a, "answers").a].vals

\* The `correct` flags of those entries, in order.
Flags(doc, qref) ==
  Tuple([j \in 1..Len(AnswersOf(doc, qref)) |-> GetKey(doc, AnswersOf(doc, qref)[j].a, "correct")])

\* C1: for a template with at least one question and a list of M >= 0 records,
\* create_h5p_from_template writes an archive whose content description has
\* exactly M questions, question i carrying record i's question text, with
\* pairwise distinct subContentId values, and whose other top-level fields
\* equal the template's.
C1_MQuestionsInOrder ==
  (pc # "call" /\ UsableTemplate(template_file) /\ RecordList(mc_questions)) =>
    /\ pc = "returned"
    /\ output_file # <<>>
    /\ \E out \in {ContentOf(output_file[1].entries)},
          tpl \in {ContentOf(template_file[1].entries)} :
         /\ Len(QuestionsOf(out)) = Len(mc_questions.recs)
         /\ \A i \in 1..Len(mc_questions.recs) :
              GetKey(out, GetKey(out, QuestionsOf(out)[i].a, "params").a, "question")
                = Str(mc_questions.recs[i].question[1])
         /\ \A i, j \in 1..Len(QuestionsOf(out)) :
              i # j => GetKey(out, QuestionsOf(out)[i].a, "subContentId")
                         # GetKey(out, QuestionsOf(out)[j].a, "subContentId")
         /\ out[1].keys = tpl[1].keys
         /\ SameExcept(tpl, 1, out, 1, {"questions"})

C1_Witness ==
  /\ pc = "returned"
  /\ Len(mc_questions.recs) = 2
  /\ Len(QuestionsOf(ContentOf(template_file[1].entries))) = 1
  /\ Len(QuestionsOf(ContentOf(output_file[1].entries))) = 2

\* C2: for a record with k answers and a correct_index c, the generated question
\* has exactly k answer entries in the record's order, entry j has the record's
\* j-th answer as its text, and its `correct` flag is true iff j (from 0) is c.
C2_AnswersFlagged ==
  pc = "returned" =>
    \E out \in {ContentOf(output_file[1].entries)} :
      \A i \in 1..Len(mc_questions.recs) :
        mc_questions.recs[i].correct_index # <<>> =>
          /\ Len(AnswersOf(out, QuestionsOf(out)[i])) = Len(mc_questions.recs[i].answers[1])
          /\ \A j \in 1..Len(mc_questions.recs[i].answers[1]) :
               /\ GetKey(out, AnswersOf(out, QuestionsOf(out)[i])[j].a, "text")
                    = Str(mc_questions.recs[i].answers[1][j])
               /\ GetKey(out, AnswersOf(out, QuestionsOf(out)[i])[j].a, "correct")
                    = Bool(j - 1 = mc_questions.recs[i].correct_index[1])

C2_Witness ==
  /\ pc = "returned"
  /\ \E i \in 1..Len(mc_questions.recs) :
       /\ mc_questions.recs[i].answers = <<(<<"A", "B", "C", "D">>)>>
       /\ mc_questions.recs[i].correct_index = <<2>>
       /\ Flags(ContentOf(output_file[1].entries),
                QuestionsOf(ContentOf(output_file[1].entries))[i])
            = <<Bool(FALSE), Bool(FALSE), Bool(TRUE), Bool(FALSE)>>

\* C3: the output archive has the input archive's entries, in the same order
\* with the same names, and every entry other than content/content.json has
\* the payload of the corresponding input entry.
C3_EntriesPreserved ==
  pc = "returned" =>
    \E zin \in {template_file[1].entries}, zout \in {output_file[1].entries} :
      /\ Len(zout) = Len(zin)
      /\ \A i \in 1..Len(zin) :
           /\ zout[i].name = zin[i].name
           /\ zin[i].name # ContentName => zout[i].payload = zin[i].payload

\* The exceptions of a template without a skeleton (a missing key, an index
\* out of range) and those of the archive container.
TemplateFormatErrors == {"KeyError", "IndexError"}
ArchiveIOErrors == {"BadZipFile", "FileNotFoundError"}

\* A readable archive without a skeleton: no content/content.json entry, or a
\* content description with no `questions` field or an empty one.
NoSkeleton(file) ==
  /\ file[1].zip
  /\ \/ NameToInfo(file[1].entries, ContentName) = 0
     \/ /\ ZipRead(file[1].entries, ContentName).exc = ""
        /\ ZipRead(file[1].entries, ContentName).payload.kind = "json"
        /\ \/ ~HasKey(ContentOf(file[1].entries), 1, "questions")
           \/ Len(QuestionsOf(ContentOf(file[1].entries))) = 0

\* C4: for every value of mc_questions, the empty list included, the merge of
\* a template without a skeleton raises a missing-key or index error, which is
\* not one of the archive container's exceptions, and writes nothing; a file
\* that is no archive raises the container's exception.
C4_NoSkeletonFails ==
  /\ (pc # "call" /\ NoSkeleton(template_file)) =>
       /\ pc = "raised"
       /\ exc \in TemplateFormatErrors
       /\ exc \notin ArchiveIOErrors
       /\ output_file = <<>>
  /\ (pc # "call" /\ ~template_file[1].zip) => (pc = "raised" /\ exc \in ArchiveIOErrors)

C4_Witness ==
  /\ pc = "raised"
  /\ exc = "IndexError"
  /\ mc_questions = ListValue(<<>>)
  /\ NameToInfo(template_file[1].entries, ContentName) # 0
  /\ Len(QuestionsOf(ContentOf(template_file[1].entries))) = 0

\* C5: after a failed merge the output path holds no archive or a complete one.
C5_NoPartialOutput ==
  pc = "raised" => (output_file = <<>> \/ output_file[1].complete)

\* The template the handler merges into: the upload, or quiz-template.h5p.
ChosenTemplate == IF uploaded_template # <<>> THEN uploaded_template ELSE default_template

\* The generated package: at the output path, then handed to the download.
Package == IF pc = "done" THEN download ELSE output_file

\* true for the first answer entry and false for the others
FirstOnly(n) == Tuple([j \in 1..n |-> Bool(j = 1)])

\* C6: a record without correct_index raises no exception; in the generated
\* package its first answer is the only one marked correct, and the preview
\* shows the warning for that question.
C6_MissingIndexFirstAnswer ==
  /\ ( /\ RecordList(mc_questions)
       /\ \E i \in 1..Len(mc_questions.recs) : mc_questions.recs[i].correct_index = <<>>
       /\ UsableTemplate(ChosenTemplate) ) => pc # "caught"
  /\ pc \in {"preview", "download", "done"} =>
       \E out \in {ContentOf(Package[1].entries)} :
         \A i \in 1..Len(mc_questions.recs) :
           mc_questions.recs[i].correct_index = <<>> =>
             /\ Flags(out, QuestionsOf(out)[i]) = FirstOnly(Len(mc_questions.recs[i].answers[1]))
             /\ pc # "preview" => warnings[i]

C6_Witness ==
  /\ pc = "done"
  /\ \E i \in 1..Len(mc_questions.recs) :
       /\ mc_questions.recs[i].correct_index = <<>>
       /\ Len(mc_questions.recs[i].answers[1]) = 3
       /\ warnings[i]
       /\ Flags(ContentOf(download[1].entries), QuestionsOf(ContentOf(download[1].entries))[i])
            = <<Bool(TRUE), Bool(FALSE), Bool(FALSE)>>

\* The shape the service is asked for: a list of objects, each with a question,
\* four answers and a correct_index.
ValidShape(v) ==
  /\ v.kind = "list"
  /\ \A i \in 1..Len(v.recs) :
       /\ IsWellFormed(v.recs[i])
       /\ Len(v.recs[i].answers[1]) = 4
       /\ v.recs[i].correct_index # <<>>

\* C7: what clean_and_parse_questions returns and the handler passes to the
\* merge has the shape the service is asked for.
C7_OnlyValidShapeReachesMerge ==
  pc = "merge" => ValidShape(mc_questions)

\* C8: a reply that parses but has no `questions` field gives the empty list
\* and no exception from clean_and_parse_questions; its RuntimeError is raised
\* only for a reply that does not parse.
C8_NoQuestionsFieldGivesEmpty ==
  /\ (reply.valid /\ ~reply.has /\ pc \notin {"idle", "error", "extract"}) =>
       IF pc = "caught" THEN exc = "APIError" ELSE mc_questions = ListValue(<<>>)
  /\ (pc = "caught" /\ exc = "RuntimeError") => ~reply.valid

C8_Witness ==
  /\ pc = "stopped"
  /\ reply = ObjectWithout
  /\ mc_questions = ListValue(<<>>)
  /\ exc = ""

\* The heap after `field := "mutated"` on position p of the object at `a`.
Mutate(h, a, p) == [h EXCEPT ![a].vals[p] = Str("mutated")]

\* The objects at the addresses `objs` are in h2 what they are in h1. For the
\* objects below a root this says that the root's whole tree is unchanged.
SameObjects(h1, h2, objs) == \A b \in objs : h2[b] = h1[b]

\* C9: after the build, a generated question shares no object with another
\* generated question or with the skeleton, the skeleton is what the template
\* holds, and assigning to any field of any object of one generated question
\* changes neither another generated question nor the skeleton.
C9_DeepCopyIsolation ==
  pc = "returned" =>
    \E qs \in {heap[locals.new_questions].vals}, skel \in {Reach(heap, locals.base_q)},
       tpl \in {ContentOf(template_file[1].entries)} :
      \E trees \in {Tuple([i \in 1..Len(qs) |-> Reach(heap, qs[i].a)])} :
        /\ json_dumps(heap, locals.base_q) = json_dumps(tpl, QuestionsOf(tpl)[1].a)
        /\ \A i \in 1..Len(qs) :
             /\ trees[i] \cap skel = {}
             /\ \A j \in 1..Len(qs) : i # j => trees[i] \cap trees[j] = {}
             /\ \A a \in trees[i] :
                  \A p \in 1..Len(heap[a].vals) :
                    \E mutated \in {Mutate(heap, a, p)} :
                      /\ SameObjects(heap, mutated, skel)
                      /\ \A j \in 1..Len(qs) : i # j => SameObjects(heap, mutated, trees[j])

C9_Witness ==
  /\ pc = "returned"
  /\ Len(heap[locals.new_questions].vals) = 2
  /\ \A i \in 1..2 : Len(mc_questions.recs[i].answers[1]) >= 2
  /\ Reach(heap, heap[locals.new_questions].vals[1].a)
       \cap Reach(heap, heap[locals.new_questions].vals[2].a) = {}

\* C10: a generated question equals the template's first question on every
\* field other than params.question, params.answers, metadata.title,
\* metadata.extraTitle and subContentId; each of its answer entries equals the
\* skeleton's first answer entry on every field other than text and correct;
\* title and extraTitle of question i are "Vraag i".
C10_SkeletonShapeKept ==
  pc = "returned" =>
    \E out \in {ContentOf(output_file[1].entries)},
       tpl \in {ContentOf(template_file[1].entries)} :
      \A i \in 1..Len(QuestionsOf(out)) :
        \E q \in {QuestionsOf(out)[i]}, skel \in {QuestionsOf(tpl)[1]} :
          /\ SameExcept(tpl, skel.a, out, q.a, {"params", "metadata", "subContentId"})
          /\ SameExcept(tpl, GetKey(tpl, skel.a, "params").a,
                        out, GetKey(out, q.a, "params").a, {"question", "answers"})
          /\ SameExcept(tpl, GetKey(tpl, skel.a, "metadata").a,
                        out, GetKey(out, q.a, "metadata").a, {"title", "extraTitle"})
          /\ GetKey(out, GetKey(out, q.a, "metadata").a, "title") = VraagLabel(i)
          /\ GetKey(out, GetKey(out, q.a, "metadata").a, "extraTitle") = VraagLabel(i)
          /\ \A j \in 1..Len(AnswersOf(out, q)) :
               SameExcept(tpl, AnswersOf(tpl, skel)[1].a,
                          out, AnswersOf(out, q)[j].a, {"text", "correct"})

C10_Witness ==
  /\ pc = "returned"
  /\ Len(QuestionsOf(ContentOf(template_file[1].entries))) = 2
  /\ Len(mc_questions.recs) = 2
  /\ Len(mc_questions.recs[2].answers[1]) = 3
  /\ GetKey(ContentOf(output_file[1].entries),
            GetKey(ContentOf(output_file[1].entries),
                   QuestionsOf(ContentOf(output_file[1].entries))[2].a, "metadata").a,
            "title") = VraagLabel(2)

====
